---- MODULE Spec2Model ----
(***************************************************************************)
(* Model of src/ollama_tester.py: TESTER.run starts one make_requests      *)
(* controller per target on a single asyncio event loop.  Each controller  *)
(* admits requests in bursts under a concurrency limit, hands completed    *)
(* requests to process_response, cancels what is left when the duration    *)
(* has elapsed, and reduces its metrics to a summary.                      *)
(*                                                                         *)
(* One action is one step of a coroutine between two suspension points     *)
(* (the event loop runs such a step without interruption), or one event    *)
(* of the environment (a request resolving, the clock advancing).          *)
(*                                                                         *)
(* Time is counted in units of the between-burst sleep (0.1 s); the        *)
(* synchronous code between two awaits takes no time.  Numbers that are    *)
(* floats in the program (throughput, mean, error percentage) are exact    *)
(* fractions <<numerator, denominator>> here.                              *)
(***************************************************************************)
EXTENDS Integers, Sequences, FiniteSets, TLC

\* ------------------------------------------------------------------ bounds
MaxDuration == 2      \* test_duration ranges over 1..MaxDuration
MaxUsers == 2         \* virtual_user ranges over 1..MaxUsers
MaxLatency == 2       \* response.elapsed ranges over 1..MaxLatency
MaxPayloads == 2      \* a target has 1..MaxPayloads payloads
MaxStarted == 4       \* payloads * test_duration, summed over the targets

VARIABLES
    api_requests,   \* self.api_requests, as the sequence of its items()
    virtual_user,   \* self.virtual_user
    test_duration,  \* self.test_duration
    now,            \* min(time.time() - start_time, duration)
    stop_event,     \* threading.Event of run()
    pc,             \* per target: where its make_requests coroutine stands
    idx,            \* per target: index of the payload the for loop is at
    wake,           \* per target: earliest time at which its sleep(0.1) ends
    reqs,           \* per target: every chat_stream task created, in order
    tasks,          \* per target: the local `tasks` (indices into reqs)
    handlers,       \* per target: spawned process_response tasks not yet run
    metrics,        \* per target: the local `metrics` dict
    result,         \* per target: <<>> or <<the dict make_requests returned>>
    opc,            \* where run_tests stands: "gather", "done" or "raised"
    all_metrics     \* the dict run() fills

vars == <<api_requests, virtual_user, test_duration, now, stop_event, pc, idx, wake, reqs,
          tasks, handlers, metrics, result, opc, all_metrics>>

\* ------------------------------------------------------------ the targets
\* The keys of api_requests.
ModelSet == {api_requests[k].model : k \in DOMAIN api_requests}

\* api_requests[m]
Payload(m) == (CHOOSE item \in {api_requests[k] : k \in DOMAIN api_requests} :
                   item.model = m).payload

\* A payload list of n request bodies; a body is named by its position.
PayloadOf(n) == [k \in 1..n |-> k]

\* ----------------------------------------------------------------- helpers
RECURSIVE SumSeq(_)
SumSeq(s) == IF s = <<>> THEN 0 ELSE Head(s) + SumSeq(Tail(s))

RECURSIVE MinSeq(_)
MinSeq(s) ==
    IF Len(s) = 1 THEN s[1]
    ELSE LET m == MinSeq(Tail(s)) IN IF s[1] < m THEN s[1] ELSE m

RECURSIVE MaxSeq(_)
MaxSeq(s) ==
    IF Len(s) = 1 THEN s[1]
    ELSE LET m == MaxSeq(Tail(s)) IN IF s[1] > m THEN s[1] ELSE m

\* Every order in which the members of a set can be iterated.
Orders(S) ==
    {s \in [1..Cardinality(S) -> S] : \A i, j \in DOMAIN s : i # j => s[i] # s[j]}

\* --------------------------------------------------------- request outcomes
\* The state of a chat_stream task.
\*   "pending"    not done
\*   "resp200"    returned a Response with status_code 200
\*   "resp500"    returned a Response with another status_code
\*   "none"       caught httpx.RequestError (timeout included), returned None
\*   "raised"     ended with an exception that is not a RequestError
\*   "cancelling" cancel() was called, the CancelledError is not yet delivered
\*   "cancelled"  ended cancelled
DoneStatus == {"resp200", "resp500", "none", "raised", "cancelled"}

TaskDone(r) == r.status \in DoneStatus

TaskCancelled(r) == r.status = "cancelled"

\* What the environment can make of one transport call.
ChatStream ==
    [status : {"resp200"}, elapsed : 1..MaxLatency]
        \cup [status : {"resp500", "none", "raised"}, elapsed : {0}]

NewMetrics ==
    [successful_requests |-> 0, error_requests |-> 0, canceled_requests |-> 0,
     response_times |-> <<>>]

NewTask(p) == [payload |-> p, status |-> "pending", elapsed |-> 0, counted |-> <<>>]

\* ------------------------------------------------------------------- Init
Constructed ==
    /\ virtual_user \in 1..MaxUsers
    /\ test_duration \in 1..MaxDuration
    /\ now = 0
    /\ stop_event = FALSE
    /\ pc = [m \in ModelSet |-> "start"]
    /\ idx = [m \in ModelSet |-> 1]
    /\ wake = [m \in ModelSet |-> 0]
    /\ reqs = [m \in ModelSet |-> <<>>]
    /\ tasks = [m \in ModelSet |-> {}]
    /\ handlers = [m \in ModelSet |-> <<>>]
    /\ metrics = [m \in ModelSet |-> NewMetrics]
    /\ result = [m \in ModelSet |-> <<>>]
    /\ opc = "gather"
    /\ all_metrics = <<>>

\* The most requests the run can start: every burst but the first follows a
\* sleep of one time unit, so a target has at most test_duration bursts.
RECURSIVE StartedAtMost(_)
StartedAtMost(items) ==
    IF items = <<>> THEN 0
    ELSE Len(Head(items).payload) * test_duration + StartedAtMost(Tail(items))

\* A TESTER with one target.
Init ==
    /\ api_requests \in
           {<<[model |-> "m1", payload |-> PayloadOf(n)]>> : n \in 1..MaxPayloads}
    /\ Constructed
    /\ StartedAtMost(api_requests) <= MaxStarted

\* A TESTER with two targets.
InitTargets ==
    /\ api_requests = <<[model |-> "m1", payload |-> PayloadOf(1)],
                        [model |-> "m2", payload |-> PayloadOf(1)]>>
    /\ Constructed
    /\ StartedAtMost(api_requests) <= MaxStarted

\* ------------------------------------------------------- process_response
\* Mutant of Counter: the status code of a Response is not looked at.
CounterAnyResponse(r) ==
    CASE r.status \in {"resp200", "resp500"} -> "successful_requests"
      [] r.status \in {"none", "cancelled"} -> "canceled_requests"
      [] OTHER -> "error_requests"

\* The counter process_response increments for a finished task.
Counter(r) ==
    CASE r.status = "resp200" -> "successful_requests"
      [] r.status = "resp500" -> "error_requests"
      [] r.status = "none" -> "canceled_requests"
      [] r.status = "cancelled" -> "canceled_requests"
      [] OTHER -> "error_requests"

\* metrics[c] += 1, remembered in the task's `counted`.
Increment(L, i, c) ==
    [L EXCEPT !.metrics[c] = @ + 1, !.reqs[i].counted = Append(@, c)]

\* Mutant of ProcessResponse: the elapsed time of every Response is sampled.
ProcessResponseAnyTime(L, i) ==
    LET r == L.reqs[i]
        L1 == Increment(L, i, Counter(r))
    IN  IF r.status \in {"resp200", "resp500"}
        THEN [L1 EXCEPT !.metrics.response_times = Append(@, r.elapsed)]
        ELSE L1

\* process_response(task, metrics) for the done task i: its await does not
\* suspend, so the whole body is one step.
ProcessResponse(L, i) ==
    LET r == L.reqs[i]
        L1 == Increment(L, i, Counter(r))
    IN  IF r.status = "resp200"
        THEN [L1 EXCEPT !.metrics.response_times = Append(@, r.elapsed)]
        ELSE L1

\* ---------------------------------------------------------- make_requests
\* The locals of one make_requests call.
Locals(m) ==
    [pc |-> pc[m], idx |-> idx[m], wake |-> wake[m], reqs |-> reqs[m],
     tasks |-> tasks[m], handlers |-> handlers[m], metrics |-> metrics[m],
     result |-> result[m]]

\* Mutant of Store: one metrics dict shared by every controller.
StoreShared(m, L) ==
    /\ pc' = [pc EXCEPT ![m] = L.pc]
    /\ idx' = [idx EXCEPT ![m] = L.idx]
    /\ wake' = [wake EXCEPT ![m] = L.wake]
    /\ reqs' = [reqs EXCEPT ![m] = L.reqs]
    /\ tasks' = [tasks EXCEPT ![m] = L.tasks]
    /\ handlers' = [handlers EXCEPT ![m] = L.handlers]
    /\ metrics' = [x \in ModelSet |-> L.metrics]
    /\ result' = [result EXCEPT ![m] = L.result]

Store(m, L) ==
    /\ pc' = [pc EXCEPT ![m] = L.pc]
    /\ idx' = [idx EXCEPT ![m] = L.idx]
    /\ wake' = [wake EXCEPT ![m] = L.wake]
    /\ reqs' = [reqs EXCEPT ![m] = L.reqs]
    /\ tasks' = [tasks EXCEPT ![m] = L.tasks]
    /\ handlers' = [handlers EXCEPT ![m] = L.handlers]
    /\ metrics' = [metrics EXCEPT ![m] = L.metrics]
    /\ result' = [result EXCEPT ![m] = L.result]

\* Mutant of Submit: the new task is not kept in `tasks`.
SubmitUntracked(m, L, i) ==
    [L EXCEPT !.reqs = Append(@, NewTask(Payload(m)[i]))]

\* Mutant of Submit: every request carries the first payload.
SubmitFirst(m, L, i) ==
    [L EXCEPT !.reqs = Append(@, NewTask(Payload(m)[1])),
              !.tasks = @ \cup {Len(L.reqs) + 1}]

\* tasks.append(asyncio.create_task(self.chat_stream(client, p)))
Submit(m, L, i) ==
    [L EXCEPT !.reqs = Append(@, NewTask(Payload(m)[i])),
              !.tasks = @ \cup {Len(L.reqs) + 1}]

\* Mutant of AtLimit: the limit test off by one.
AtLimitOffByOne(L) == Cardinality(L.tasks) > virtual_user

\* len(tasks) >= users
AtLimit(L) == Cardinality(L.tasks) >= virtual_user

\* The value of the clock `now` at which a sleep(0.1) that starts now ends;
\* the clock stops at the deadline, past which no test reads it.
SleepUntil == IF now < test_duration THEN now + 1 ELSE now

\* Mutant of ForLoop: the for loop tests the deadline and the stop signal
\* before each payload, and breaks.
RECURSIVE ForLoopBreaking(_, _, _)
ForLoopBreaking(m, L, i) ==
    IF i > Len(Payload(m)) \/ stop_event \/ now >= test_duration
    THEN [L EXCEPT !.pc = "sleep", !.wake = SleepUntil]
    ELSE IF AtLimit(L)
         THEN [L EXCEPT !.pc = "waitany", !.idx = i]
         ELSE ForLoopBreaking(m, Submit(m, L, i), i + 1)

\* for p in payload, from the i-th payload on, up to the next suspension:
\* the wait at the limit, or the sleep that follows the burst.
RECURSIVE ForLoop(_, _, _)
ForLoop(m, L, i) ==
    IF i > Len(Payload(m))
    THEN [L EXCEPT !.pc = "sleep", !.wake = SleepUntil]
    ELSE IF AtLimit(L)
         THEN [L EXCEPT !.pc = "waitany", !.idx = i]
         ELSE ForLoop(m, Submit(m, L, i), i + 1)

\* Mutant of ToCancel: the drain without its task.done() test.
ToCancelAll(L) == L.tasks

\* The tasks of `tasks` that task.cancel() is called on.
ToCancel(L) == {i \in L.tasks : ~TaskDone(L.reqs[i])}

RECURSIVE CancelAll(_, _)
CancelAll(L, S) ==
    IF S = {} THEN L
    ELSE LET i == CHOOSE x \in S : TRUE
             L1 == [L EXCEPT !.reqs[i].status = "cancelling"]
         IN  CancelAll(Increment(L1, i, "canceled_requests"), S \ {i})

\* The code after the while loop, up to the wait for all tasks;
\* asyncio.wait raises ValueError on an empty list.
Drain(L) ==
    LET L1 == CancelAll(L, ToCancel(L))
    IN  IF L1.tasks = {}
        THEN [L1 EXCEPT !.pc = "failed"]
        ELSE [L1 EXCEPT !.pc = "drainwait"]

\* while not stop_event.is_set() and time.time() < end_time
Running == ~stop_event /\ now < test_duration

WhileLoop(m, L) == IF Running THEN ForLoop(m, L, 1) ELSE Drain(L)

\* Mutant of Summary: the total leaves the cancelled requests out.
SummaryWithoutCanceled(M) ==
    LET total_requests == M.successful_requests + M.error_requests
        times == M.response_times
    IN  [total_requests_sent |-> total_requests,
         requests_per_second |->
             IF times # <<>> THEN <<M.successful_requests, test_duration>>
             ELSE <<0, 1>>,
         avg_response_time |->
             IF times # <<>> THEN <<SumSeq(times), Len(times)>> ELSE <<0, 1>>,
         min_response_time |-> IF times # <<>> THEN MinSeq(times) ELSE 0,
         max_response_time |-> IF times # <<>> THEN MaxSeq(times) ELSE 0,
         error_percentage |->
             IF total_requests > 0 THEN <<M.error_requests * 100, total_requests>>
             ELSE <<0, 1>>,
         canceled_requests |-> M.canceled_requests]

\* Mutant of Summary: the error percentage without its test of the total.
SummaryUnguarded(M) ==
    LET total_requests ==
            M.successful_requests + M.error_requests + M.canceled_requests
        times == M.response_times
    IN  [total_requests_sent |-> total_requests,
         requests_per_second |->
             IF times # <<>> THEN <<M.successful_requests, test_duration>>
             ELSE <<0, 1>>,
         avg_response_time |->
             IF times # <<>> THEN <<SumSeq(times), Len(times)>> ELSE <<0, 1>>,
         min_response_time |-> IF times # <<>> THEN MinSeq(times) ELSE 0,
         max_response_time |-> IF times # <<>> THEN MaxSeq(times) ELSE 0,
         error_percentage |->
             <<M.error_requests * 100, total_requests>>,
         canceled_requests |-> M.canceled_requests]

\* Mutant of Summary: the throughput counts every request.
SummaryThroughputOfTotal(M) ==
    LET total_requests ==
            M.successful_requests + M.error_requests + M.canceled_requests
        times == M.response_times
    IN  [total_requests_sent |-> total_requests,
         requests_per_second |->
             IF times # <<>> THEN <<total_requests, test_duration>>
             ELSE <<0, 1>>,
         avg_response_time |->
             IF times # <<>> THEN <<SumSeq(times), Len(times)>> ELSE <<0, 1>>,
         min_response_time |-> IF times # <<>> THEN MinSeq(times) ELSE 0,
         max_response_time |-> IF times # <<>> THEN MaxSeq(times) ELSE 0,
         error_percentage |->
             IF total_requests > 0 THEN <<M.error_requests * 100, total_requests>>
             ELSE <<0, 1>>,
         canceled_requests |-> M.canceled_requests]

\* The summary make_requests returns.
Summary(M) ==
    LET total_requests ==
            M.successful_requests + M.error_requests + M.canceled_requests
        times == M.response_times
    IN  [total_requests_sent |-> total_requests,
         requests_per_second |->
             IF times # <<>> THEN <<M.successful_requests, test_duration>>
             ELSE <<0, 1>>,
         avg_response_time |->
             IF times # <<>> THEN <<SumSeq(times), Len(times)>> ELSE <<0, 1>>,
         min_response_time |-> IF times # <<>> THEN MinSeq(times) ELSE 0,
         max_response_time |-> IF times # <<>> THEN MaxSeq(times) ELSE 0,
         error_percentage |->
             IF total_requests > 0 THEN <<M.error_requests * 100, total_requests>>
             ELSE <<0, 1>>,
         canceled_requests |-> M.canceled_requests]

\* Mutant of ProcessDone: the drain without its task.cancelled() test.
RECURSIVE ProcessDoneUnchecked(_, _)
ProcessDoneUnchecked(L, order) ==
    IF order = <<>> THEN L
    ELSE ProcessDoneUnchecked(ProcessResponse(L, Head(order)), Tail(order))

\* for task in done: if not task.cancelled(): await process_response(...)
RECURSIVE ProcessDone(_, _)
ProcessDone(L, order) ==
    IF order = <<>> THEN L
    ELSE LET i == Head(order)
         IN  ProcessDone(IF TaskCancelled(L.reqs[i]) THEN L
                         ELSE ProcessResponse(L, i),
                         Tail(order))

\* return_when=asyncio.FIRST_COMPLETED: asyncio.wait returns once a task of
\* `tasks` is done.
FirstCompleted(L) == \E i \in L.tasks : TaskDone(L.reqs[i])

\* Mutant of AllCompleted: the drain waits with FIRST_COMPLETED.
ReturnWhenFirst(L) == \E i \in L.tasks : TaskDone(L.reqs[i])

\* return_when=asyncio.ALL_COMPLETED: asyncio.wait returns once every task of
\* `tasks` is done.
AllCompleted(L) == \A i \in L.tasks : TaskDone(L.reqs[i])

\* Mutant of DoneOf: `done` and `pending` taken the wrong way round.
PendingOf(L) == {i \in L.tasks : ~TaskDone(L.reqs[i])}

\* The set `done` that asyncio.wait returns: the tasks of `tasks` that are done
\* when the controller resumes.
DoneOf(L) == {i \in L.tasks : TaskDone(L.reqs[i])}

\* Mutant of AfterLimitWait: the controller reads task.result() of the done
\* tasks itself, so that the exception of a task leaves make_requests.
AfterLimitWaitRaising(m, L, order) ==
    IF \E i \in DoneOf(L) : L.reqs[i].status = "raised"
    THEN [L EXCEPT !.pc = "failed"]
    ELSE LET L1 == [L EXCEPT !.tasks = @ \ DoneOf(L), !.handlers = @ \o order]
         IN  ForLoop(m, Submit(m, L1, L.idx), L.idx + 1)

\* The code that follows the wait at the limit: tasks = list(pending), one
\* process_response task is spawned per done task (in the order `order`), the
\* new request is submitted and the for loop goes on.
AfterLimitWait(m, L, order) ==
    LET L1 == [L EXCEPT !.tasks = @ \ DoneOf(L), !.handlers = @ \o order]
    IN  ForLoop(m, Submit(m, L1, L.idx), L.idx + 1)

\* The event loop of asyncio.run is running run_tests.
LoopRunning == opc = "gather"

\* gather starts the controllers in the order of api_requests.
Start(m) ==
    /\ LoopRunning
    /\ pc[m] = "start"
    /\ \A j, k \in DOMAIN api_requests :
           (j < k /\ api_requests[k].model = m) => pc[api_requests[j].model] # "start"
    /\ \E client_ok \in BOOLEAN :
           IF client_ok
           THEN Store(m, WhileLoop(m, Locals(m)))
           ELSE Store(m, [Locals(m) EXCEPT !.pc = "failed"])
    /\ UNCHANGED <<api_requests, virtual_user, test_duration, now, stop_event, opc, all_metrics>>

\* asyncio.wait(tasks, FIRST_COMPLETED) returns; the rest of the burst runs.
WaitAnyReturn(m) ==
    /\ LoopRunning
    /\ pc[m] = "waitany"
    /\ handlers[m] = <<>>
    /\ LET L == Locals(m)
       IN  /\ FirstCompleted(L)
           /\ \E order \in Orders(DoneOf(L)) : Store(m, AfterLimitWait(m, L, order))
    /\ UNCHANGED <<api_requests, virtual_user, test_duration, now, stop_event, opc, all_metrics>>

\* A process_response task spawned at the limit runs.
RunHandler(m) ==
    /\ LoopRunning
    /\ handlers[m] # <<>>
    /\ LET L == Locals(m)
       IN  Store(m, [ProcessResponse(L, Head(L.handlers))
                         EXCEPT !.handlers = Tail(L.handlers)])
    /\ UNCHANGED <<api_requests, virtual_user, test_duration, now, stop_event, opc, all_metrics>>

\* asyncio.sleep(0.1) ends; the while condition is tested.
SleepReturn(m) ==
    /\ LoopRunning
    /\ pc[m] = "sleep"
    /\ handlers[m] = <<>>
    /\ now >= wake[m]
    /\ Store(m, WhileLoop(m, Locals(m)))
    /\ UNCHANGED <<api_requests, virtual_user, test_duration, now, stop_event, opc, all_metrics>>

\* asyncio.wait(tasks, ALL_COMPLETED) returns; the summary is computed.
DrainReturn(m) ==
    /\ LoopRunning
    /\ pc[m] = "drainwait"
    /\ handlers[m] = <<>>
    /\ LET L == Locals(m)
       IN  /\ AllCompleted(L)
           /\ \E order \in Orders(L.tasks) :
                  LET L1 == ProcessDone(L, order)
                  IN  Store(m, [L1 EXCEPT !.pc = "finished",
                                          !.result = <<Summary(L1.metrics)>>])
    /\ UNCHANGED <<api_requests, virtual_user, test_duration, now, stop_event, opc, all_metrics>>

\* ------------------------------------------------------------ environment
\* The transport call of a chat_stream task ends.
Resolve(m) ==
    /\ LoopRunning
    /\ \E i \in 1..Len(reqs[m]), out \in ChatStream :
           /\ reqs[m][i].status = "pending"
           /\ reqs' = [reqs EXCEPT ![m][i].status = out.status,
                                   ![m][i].elapsed = out.elapsed]
    /\ UNCHANGED <<api_requests, virtual_user, test_duration, now, stop_event, pc, idx, wake,
                   tasks, handlers, metrics, result, opc, all_metrics>>

\* The CancelledError of task.cancel() reaches the task, which ends cancelled
\* (chat_stream catches httpx.RequestError only).
CancelDelivered(m) ==
    /\ LoopRunning
    /\ \E i \in 1..Len(reqs[m]) :
           /\ reqs[m][i].status = "cancelling"
           /\ reqs' = [reqs EXCEPT ![m][i].status = "cancelled"]
    /\ UNCHANGED <<api_requests, virtual_user, test_duration, now, stop_event, pc, idx, wake,
                   tasks, handlers, metrics, result, opc, all_metrics>>

Terminal == {"finished", "failed", "aborted"}

\* The clock advances by one sleep interval.
Tick ==
    /\ LoopRunning
    /\ now < test_duration
    /\ \E m \in ModelSet : pc[m] \notin Terminal \cup {"start"}
    /\ now' = now + 1
    /\ UNCHANGED <<api_requests, virtual_user, test_duration, stop_event, pc, idx, wake, reqs,
                   tasks, handlers, metrics, result, opc, all_metrics>>

\* -------------------------------------------------------------- run_tests
\* Mutant of GatherReturn: stop_event.set() ahead of the await of gather.
GatherReturnStopsEarly ==
    /\ LoopRunning
    /\ ~stop_event
    /\ \A m \in ModelSet : pc[m] # "start"
    /\ stop_event' = TRUE
    /\ UNCHANGED <<api_requests, virtual_user, test_duration, now, pc, idx, wake,
                   reqs, tasks, handlers, metrics, result, opc, all_metrics>>

\* results = await asyncio.gather(*tasks) returns; stop_event.set(); the
\* results are zipped with the keys of api_requests.
GatherReturn ==
    /\ LoopRunning
    /\ \A m \in ModelSet : pc[m] = "finished"
    /\ LET results == [k \in DOMAIN api_requests |-> result[api_requests[k].model][1]]
       IN  all_metrics' =
               [m \in ModelSet |->
                   results[CHOOSE k \in DOMAIN api_requests : api_requests[k].model = m]]
    /\ stop_event' = TRUE
    /\ opc' = "done"
    /\ UNCHANGED <<api_requests, virtual_user, test_duration, now, pc, idx, wake, reqs, tasks,
                   handlers, metrics, result>>

\* gather has no return_exceptions: the first exception of a controller leaves
\* run_tests, and asyncio.run cancels every task still on the loop.
GatherRaise ==
    /\ LoopRunning
    /\ \E m \in ModelSet : pc[m] = "failed"
    /\ \A m \in ModelSet : pc[m] # "start"
    /\ opc' = "raised"
    /\ pc' = [m \in ModelSet |-> IF pc[m] \in Terminal THEN pc[m] ELSE "aborted"]
    /\ reqs' = [m \in ModelSet |->
                   [i \in 1..Len(reqs[m]) |->
                       IF TaskDone(reqs[m][i]) THEN reqs[m][i]
                       ELSE [reqs[m][i] EXCEPT !.status = "cancelled"]]]
    /\ handlers' = [m \in ModelSet |-> <<>>]
    /\ UNCHANGED <<api_requests, virtual_user, test_duration, now, stop_event, idx, wake, tasks,
                   metrics, result, all_metrics>>

Next ==
    \/ \E m \in ModelSet : Start(m)
    \/ \E m \in ModelSet : WaitAnyReturn(m)
    \/ \E m \in ModelSet : RunHandler(m)
    \/ \E m \in ModelSet : SleepReturn(m)
    \/ \E m \in ModelSet : DrainReturn(m)
    \/ \E m \in ModelSet : Resolve(m)
    \/ \E m \in ModelSet : CancelDelivered(m)
    \/ Tick
    \/ GatherReturn
    \/ GatherRaise

Spec == Init /\ [][Next]_vars

SpecTargets == InitTargets /\ [][Next]_vars

\* The event loop runs every ready coroutine step, time passes, and every
\* started request resolves.
Fairness ==
    /\ WF_vars(\E m \in ModelSet : Start(m))
    /\ WF_vars(\E m \in ModelSet : WaitAnyReturn(m))
    /\ WF_vars(\E m \in ModelSet : RunHandler(m))
    /\ WF_vars(\E m \in ModelSet : SleepReturn(m))
    /\ WF_vars(\E m \in ModelSet : DrainReturn(m))
    /\ WF_vars(\E m \in ModelSet : Resolve(m))
    /\ WF_vars(\E m \in ModelSet : CancelDelivered(m))
    /\ WF_vars(Tick)
    /\ WF_vars(GatherReturn)
    /\ WF_vars(GatherRaise)

FairSpecTargets == SpecTargets /\ Fairness

\* ================================================================ claims
Started(m) == Len(reqs[m])

Finished(m) == pc[m] = "finished"

\* The number of requests of m whose task is in one of the states S.
NumStatus(m, S) == Cardinality({i \in 1..Len(reqs[m]) : reqs[m][i].status \in S})

\* C1: for every target, in every reachable state, the number of requests
\* started and not yet removed from the in-flight list `tasks` is at most
\* the concurrency limit virtual_user.
C1_WindowBounded == \A m \in ModelSet : Cardinality(tasks[m]) <= virtual_user

\* The window is full, the controller waits at the limit, and more requests
\* than the limit have been started.
C1_Witness ==
    \E m \in ModelSet :
        /\ pc[m] = "waitany"
        /\ Cardinality(tasks[m]) = virtual_user
        /\ Started(m) > virtual_user

\* C2: when a controller has finished, total_requests_sent equals the number
\* of requests it started, and every started request has incremented exactly
\* one counter exactly once.
C2_CountedOnce ==
    \A m \in ModelSet :
        Finished(m) =>
            /\ result[m][1].total_requests_sent = Started(m)
            /\ \A i \in 1..Len(reqs[m]) : Len(reqs[m][i].counted) = 1

\* A finished controller that recorded a request by a handler spawned at the
\* limit wait (it is no longer in `tasks`), one in the drain and one that the
\* drain cancelled.
C2_Witness ==
    \E m \in ModelSet :
        /\ Finished(m)
        /\ \E i \in 1..Len(reqs[m]) : i \notin tasks[m]
        /\ \E i \in tasks[m] : reqs[m][i].status = "cancelled"
        /\ \E i \in tasks[m] : reqs[m][i].status \in {"resp200", "resp500", "none"}

\* C3: a request that ended with a local timeout or another transport error
\* (chat_stream caught httpx.RequestError) is counted as an error, never as
\* cancelled.
C3_TimeoutIsError ==
    \A m \in ModelSet : \A i \in 1..Len(reqs[m]) :
        reqs[m][i].status = "none" =>
            \A k \in 1..Len(reqs[m][i].counted) :
                reqs[m][i].counted[k] = "error_requests"

\* C4: when the controller of one target has raised, run_tests still ends
\* with a summary for every target (a best-effort one for the failing
\* target), and no other controller is kept from producing its summary.
C4_FailureIsolated ==
    \A a \in ModelSet :
        (/\ opc # "gather"
         /\ pc[a] = "failed"
         /\ \A b \in ModelSet \ {a} : pc[b] # "failed") =>
            /\ DOMAIN all_metrics = ModelSet
            /\ \A b \in ModelSet \ {a} : pc[b] = "finished"

\* Every response the transport has returned to m has status 500.
All500(m) ==
    \A i \in 1..Len(reqs[m]) :
        reqs[m][i].status \in {"pending", "resp500", "cancelling", "cancelled"}

\* C5 (as stated): when every response has status 500, the summary has
\* error == total_requests_sent, successful == 0 and error_percentage == 100.
C5_AllErrors ==
    \A m \in ModelSet :
        (Finished(m) /\ All500(m)) =>
            /\ metrics[m].error_requests = result[m][1].total_requests_sent
            /\ metrics[m].successful_requests = 0
            /\ result[m][1].error_percentage[1] =
                   100 * result[m][1].error_percentage[2]

\* C5 (amended): when every response has status 500, successful == 0, every
\* request that got its response is an error, the requests cancelled by the
\* drain make up the rest of total_requests_sent, and error_percentage is
\* 100 * error / total_requests_sent: 100 when the drain cancelled nothing.
C5_ErrorsAndCancelled ==
    \A m \in ModelSet :
        (Finished(m) /\ All500(m)) =>
            /\ metrics[m].successful_requests = 0
            /\ metrics[m].error_requests = NumStatus(m, {"resp500"})
            /\ metrics[m].canceled_requests = NumStatus(m, {"cancelled"})
            /\ result[m][1].total_requests_sent =
                   metrics[m].error_requests + metrics[m].canceled_requests
            /\ result[m][1].error_percentage =
                   <<100 * metrics[m].error_requests,
                     result[m][1].total_requests_sent>>
            /\ (metrics[m].canceled_requests = 0 =>
                    result[m][1].error_percentage[1] =
                        100 * result[m][1].error_percentage[2])

\* A finished run of status 500 responses with errors and cancelled requests.
C5_Witness ==
    \E m \in ModelSet :
        /\ Finished(m)
        /\ All500(m)
        /\ metrics[m].error_requests >= 2
        /\ metrics[m].canceled_requests >= 1

\* C6: once the stop signal is set or the duration has elapsed, no controller
\* starts a further request.
C6_NoAdmissionAfterDeadline ==
    [][(stop_event \/ now >= test_duration) =>
           \A m \in ModelSet : Len(reqs'[m]) = Len(reqs[m])]_vars

\* C7: in every state where a controller is finished, no request it started
\* is still unresolved.
C7_DrainComplete ==
    \A m \in ModelSet :
        Finished(m) => \A i \in 1..Len(reqs[m]) : TaskDone(reqs[m][i])

\* A finished controller whose drain had to wait for a cancelled request.
C7_Witness ==
    \E m \in ModelSet :
        /\ Finished(m)
        /\ \E i \in tasks[m] : reqs[m][i].status = "cancelled"
        /\ Cardinality(tasks[m]) >= 2

\* C8: under fair scheduling, every controller eventually is finished and
\* the orchestrator eventually holds, for every target, the summary that
\* target's controller returned.
C8_AllSummariesCollected ==
    <>(/\ \A m \in ModelSet : Finished(m)
       /\ DOMAIN all_metrics = ModelSet
       /\ \A m \in ModelSet : all_metrics[m] = result[m][1])

\* C9: the summary's total_requests_sent is the sum of the final values of
\* the three counters.
C9_TotalIsSum ==
    \A m \in ModelSet :
        Finished(m) =>
            result[m][1].total_requests_sent =
                metrics[m].successful_requests + metrics[m].error_requests
                    + metrics[m].canceled_requests

\* A finished controller with each of the three counters above zero.
C9_Witness ==
    \E m \in ModelSet :
        /\ Finished(m)
        /\ metrics[m].successful_requests > 0
        /\ metrics[m].error_requests > 0
        /\ metrics[m].canceled_requests > 0

\* C10: a step that records an outcome of a request of one target leaves the
\* counters and the latency samples of every other target unchanged.
C10_TargetsIndependent ==
    [][\A a, b \in ModelSet :
           (a # b /\ metrics'[a] # metrics[a]) => metrics'[b] = metrics[b]]_vars

\* Both targets have recorded outcomes: a failure for the one, a success
\* with its latency for the other.
C10_Witness ==
    /\ DOMAIN metrics = {"m1", "m2"}
    /\ metrics["m1"].error_requests > 0
    /\ metrics["m2"].successful_requests > 0
    /\ metrics["m2"].response_times # <<>>
    /\ metrics["m1"].successful_requests = 0

\* C11: for every reachable accumulator, the summary's error_percentage is a
\* fraction between 0 and 100, and it is 0 when total_requests_sent is 0; the
\* summary a finished controller returned holds that value.
C11_PercentageInRange ==
    \A m \in ModelSet :
        LET S == Summary(metrics[m])
            pct == S.error_percentage
        IN  /\ pct[2] > 0
            /\ 0 <= pct[1]
            /\ pct[1] <= 100 * pct[2]
            /\ (S.total_requests_sent = 0 => pct[1] = 0)
            /\ (Finished(m) => result[m][1].error_percentage = pct)

\* A finished controller with errors and other outcomes: a percentage strictly
\* between 0 and 100.
C11_Witness ==
    \E m \in ModelSet :
        /\ Finished(m)
        /\ 0 < result[m][1].error_percentage[1]
        /\ result[m][1].error_percentage[1] < 100 * result[m][1].error_percentage[2]

\* The requests of m that were counted as successful.
SuccessOf(m) ==
    {i \in 1..Len(reqs[m]) : "successful_requests" \in
                                {reqs[m][i].counted[k] : k \in DOMAIN reqs[m][i].counted}}

\* The latencies of the requests of m that were counted as successful.
SuccessLatencies(m) == {reqs[m][i].elapsed : i \in SuccessOf(m)}

RECURSIVE SumElapsed(_, _)
SumElapsed(m, S) ==
    IF S = {} THEN 0
    ELSE LET i == CHOOSE x \in S : TRUE
         IN  reqs[m][i].elapsed + SumElapsed(m, S \ {i})

\* C12: the latency samples are exactly the latencies of the requests counted
\* as successful, one sample each and none for another outcome; the mean, min
\* and max of the summary are those of that set, and 0 without a success.
C12_LatencyOverSuccesses ==
    \A m \in ModelSet :
        LET times == metrics[m].response_times
        IN  /\ \A i \in SuccessOf(m) : reqs[m][i].status = "resp200"
            /\ Len(times) = Cardinality(SuccessOf(m))
            /\ Len(times) = metrics[m].successful_requests
            /\ \A v \in 0..MaxLatency :
                   Cardinality({k \in DOMAIN times : times[k] = v}) =
                       Cardinality({i \in SuccessOf(m) : reqs[m][i].elapsed = v})
            /\ Finished(m) =>
                   LET S == result[m][1]
                       lat == SuccessLatencies(m)
                   IN  IF SuccessOf(m) = {}
                       THEN /\ S.avg_response_time[1] = 0
                            /\ S.min_response_time = 0
                            /\ S.max_response_time = 0
                       ELSE /\ S.avg_response_time =
                                   <<SumElapsed(m, SuccessOf(m)),
                                     Cardinality(SuccessOf(m))>>
                            /\ S.min_response_time \in lat
                            /\ S.max_response_time \in lat
                            /\ \A v \in lat : /\ S.min_response_time <= v
                                               /\ v <= S.max_response_time

\* A finished controller with two successes of different latencies, and a
\* failure and a cancelled request that left no sample.
C12_Witness ==
    \E m \in ModelSet :
        /\ Finished(m)
        /\ result[m][1].min_response_time < result[m][1].max_response_time
        /\ metrics[m].error_requests > 0
        /\ metrics[m].canceled_requests > 0

\* C13: requests_per_second times the configured duration is the number of
\* successful requests, and it is 0 without a success.
C13_Throughput ==
    \A m \in ModelSet :
        Finished(m) =>
            LET rps == result[m][1].requests_per_second
            IN  /\ rps[2] > 0
                /\ rps[1] * test_duration = metrics[m].successful_requests * rps[2]
                /\ (metrics[m].successful_requests = 0 => rps[1] = 0)

\* A finished controller of a run of duration 2 with a success and another
\* outcome.
C13_Witness ==
    \E m \in ModelSet :
        /\ Finished(m)
        /\ test_duration > 1
        /\ metrics[m].successful_requests > 0
        /\ result[m][1].total_requests_sent > metrics[m].successful_requests

\* C14: the k-th request a controller starts (k = 0, 1, ...) carries
\* payload[k mod n], n the length of the target's payload list.
C14_CyclicPayloads ==
    \A m \in ModelSet : \A i \in 1..Len(reqs[m]) :
        reqs[m][i].payload = Payload(m)[((i - 1) % Len(Payload(m))) + 1]

\* A target of two payloads whose controller has gone round the list, with an
\* earlier request still pending while a later one is done.
C14_Witness ==
    \E m \in ModelSet :
        /\ Len(Payload(m)) = 2
        /\ Len(reqs[m]) >= 3
        /\ \E i, j \in 1..Len(reqs[m]) :
               i < j /\ reqs[m][i].status = "pending" /\ TaskDone(reqs[m][j])

FailureStatus == {"resp500", "none", "raised"}

\* The requests of m that a spawned process_response task has yet to record.
InHandlers(m) == {handlers[m][k] : k \in DOMAIN handlers[m]}

\* C15: a request that resolved as a failure never aborts its controller:
\* while the duration has not elapsed, the stop signal is not set and the
\* event loop runs, the controller stays in its admission loop, and the
\* failure, once collected and handled, has been counted once.
C15_FailuresDoNotAbort ==
    \A m \in ModelSet :
        /\ ((\E i \in 1..Len(reqs[m]) : reqs[m][i].status \in FailureStatus)
                /\ Running /\ LoopRunning)
               => pc[m] \in {"waitany", "sleep"}
        /\ \A i \in 1..Len(reqs[m]) :
               (/\ reqs[m][i].status \in FailureStatus
                /\ i \notin tasks[m]
                /\ i \notin InHandlers(m)
                /\ LoopRunning)
                   => Len(reqs[m][i].counted) = 1

\* A failure of each kind has been counted, the deadline has not passed, and a
\* request started after them is in flight.
C15_Witness ==
    \E m \in ModelSet :
        /\ Running
        /\ pc[m] \in {"waitany", "sleep"}
        /\ \E i, j \in 1..Len(reqs[m]) :
               /\ i < j
               /\ reqs[m][i].status = "raised"
               /\ Len(reqs[m][i].counted) = 1
               /\ reqs[m][j].status = "pending"

CounterSum(M) == M.successful_requests + M.error_requests + M.canceled_requests

\* The number of counter increments the requests rs have caused.
RECURSIVE RecordedIn(_)
RecordedIn(rs) ==
    IF rs = <<>> THEN 0 ELSE Len(Head(rs).counted) + RecordedIn(Tail(rs))

\* C17: within a target the recordings are serialized and none is lost: the
\* task of every spawned process_response is done, so that its await does
\* not suspend and it records in one step; a step that changes the metrics is
\* either one handler recording one outcome while the controller stands
\* still, or the controller recording in its drain with no handler left; and
\* the counters add up to the recordings made.
C17_RecordingSerialized ==
    [][\A m \in ModelSet :
           /\ \A k \in DOMAIN handlers'[m] : TaskDone(reqs'[m][handlers'[m][k]])
           /\ CounterSum(metrics'[m]) = RecordedIn(reqs'[m])
           /\ Len(metrics'[m].response_times) = metrics'[m].successful_requests
           /\ metrics'[m] # metrics[m] =>
                  IF handlers[m] # <<>>
                  THEN /\ handlers'[m] = Tail(handlers[m])
                       /\ pc'[m] = pc[m]
                       /\ tasks'[m] = tasks[m]
                       /\ CounterSum(metrics'[m]) = CounterSum(metrics[m]) + 1
                       /\ RecordedIn(reqs'[m]) = RecordedIn(reqs[m]) + 1
                  ELSE /\ pc[m] \in {"sleep", "drainwait"}
                       /\ pc'[m] \in {"drainwait", "finished"}
                       /\ handlers'[m] = <<>>]_vars

\* A handler has recorded an outcome, another one is still to run, and the
\* controller has gone on admitting.
C17_Witness ==
    \E m \in ModelSet :
        /\ Len(handlers[m]) >= 1
        /\ CounterSum(metrics[m]) >= 1
        /\ pc[m] \in {"waitany", "sleep"}
        /\ \E i \in tasks[m] : reqs[m][i].status = "pending"

C19_StopAfterAll ==
    /\ stop_event => \A m \in ModelSet : pc[m] = "finished"
    /\ \A m \in ModelSet :
           pc[m] \in {"drainwait", "finished"} => (~stop_event \/ opc = "done")
    /\ \A m \in ModelSet :
           pc[m] \in {"drainwait", "finished"} => now >= test_duration

\* One controller has returned its summary while the other one is still
\* draining, and the stop signal is not set.
C19_Witness ==
    /\ ~stop_event
    /\ \E a, b \in ModelSet : pc[a] = "finished" /\ pc[b] = "drainwait"

\* C20: the drain's wait for all tasks is never reached with an empty list:
\* a controller starts with its loop condition true, `tasks` is non-empty
\* whenever it is suspended in its loop or in the drain, the drain that
\* follows a sleep does not raise, and a controller that raised has started
\* no request.
C20_DrainNeverEmpty ==
    \A m \in ModelSet :
        /\ pc[m] = "start" => Running
        /\ pc[m] \in {"sleep", "waitany", "drainwait"} => tasks[m] # {}
        /\ pc[m] = "sleep" => Drain(Locals(m)).pc = "drainwait"
        /\ pc[m] = "failed" => reqs[m] = <<>>

\* A draining controller under a limit of 1: each limit wait emptied `tasks`
\* and the append that follows refilled it.
C20_Witness ==
    \E m \in ModelSet :
        /\ pc[m] = "drainwait"
        /\ virtual_user = 1
        /\ Len(reqs[m]) >= 2
        /\ Cardinality(tasks[m]) = 1

\* Without a controller that raises, the run does end with every summary.
CollectedUnlessRaised ==
    <>(\/ \E m \in ModelSet : pc[m] = "failed"
       \/ /\ \A m \in ModelSet : Finished(m)
          /\ DOMAIN all_metrics = ModelSet
          /\ \A m \in ModelSet : all_metrics[m] = result[m][1])

====
